---- MODULE Spec2Model ----
(***************************************************************************)
(* A model of social_scheduler (src/src/social_scheduler/scheduler.py):    *)
(* the UsageTracker (weekly free-tier quota with lazy window reset and a   *)
(* premium flag, persisted in usage.json) and the schedule queue of        *)
(* SocialScheduler (scheduled.json, schedule_post and run_scheduled).      *)
(*                                                                         *)
(* Time is in seconds.  datetime.utcnow() is the variable clock; only      *)
(* differences of times matter, so the tracker is constructed at clock 0.  *)
(* A JSON file is a sequence: <<>> when the file does not exist, <<v>>     *)
(* when it holds the value v.                                              *)
(*                                                                         *)
(* Specifications: Spec (the UsageTracker's calls on a fresh data          *)
(* directory), LoadSpec (a tracker constructed over an existing            *)
(* usage.json), QueueSpec (schedule_post and run_scheduled in one          *)
(* process), EditedQueueSpec (the same over a hand-edited scheduled.json)  *)
(* and IdSpec (schedule_post with the identifier it assigns).              *)
(***************************************************************************)
EXTENDS Integers, Sequences, FiniteSets, TLC

VARIABLES
    clock,      \* datetime.utcnow(), in seconds
    ticks,      \* how many times the clock has advanced (bounds the model)
    usage,      \* UsageTracker._usage, the in-memory usage record
    usageFile,  \* usage.json
    ret,        \* what the last UsageTracker call was and what it returned
    prev,       \* history: UsageTracker._usage as it was before the last call
    hist,       \* history: what has happened to the tracker since construction
    schedFile,  \* scheduled.json
    pc,         \* where the process is inside run_scheduled ("idle" outside)
    due_posts,  \* run_scheduled's local due_posts still to be dispatched
    results,    \* run_scheduled's local results
    run,        \* history: what the current run_scheduled read (read) and
                \* found due (due), the time of the last run since which
                \* nothing was scheduled (now, else -1), and whether the
                \* current run started at that same time (again)
    log,        \* history: per enqueued post, its row, how often a run
                \* returned it as due (due), how often it was passed to
                \* post (dispatched), whether the Publisher was invoked
                \* for it (called), and whether a run ended before
                \* passing it to post (lost)
    round,      \* the locals of the SocialScheduler.post call in progress
    procs,      \* the processes that share the data directory: per
                \* process, where it is and its locals
    parsed      \* the call of a function of post.py whose outcome the
                \* caller has not yet taken: the function, its argument
                \* and its outcome

vars == <<clock, ticks, usage, usageFile, ret, prev, hist,
          schedFile, pc, due_posts, results, run, log, round, procs,
          parsed>>

usageVars == <<usage, usageFile, ret, prev, hist>>
queueVars == <<schedFile, pc, due_posts, results, run, log>>

-----------------------------------------------------------------------------
(* Bounds of the model *)

\* the clock advances at most this many times
MaxTicks == 4
\* record_post(platform_count) is called with platform_count in 1..MaxCount
MaxCount == 3
\* schedule_post is called at most this many times
MaxPosts == 3
\* the queue's clock runs from 0 to MaxTime + 1
MaxTime == 1
\* a post names at most this many platforms
MaxLen == 3
\* while posts are made, more than a week passes at most this many times
MaxWeeks == 1
\* the content of a post has at most this many characters
MaxChars == 5

(* Program constants *)

FREE_TIER_LIMIT == 5
WEEK_IN_SECONDS == 7 * 24 * 60 * 60

\* the steps by which the clock advances: one second, a week less one
\* second, a week (so that an elapsed time of exactly one week, of less and
\* of more are all reached)
TickDeltas == {1, WEEK_IN_SECONDS - 1, WEEK_IN_SECONDS}

\* the api_key argument of upgrade_to_premium ("none" is Python's None)
Tokens == {"none", "", "test_key"}

Max(a, b) == IF a >= b THEN a ELSE b

\* no post call in progress, and no process beside the one of the model
NoRound == [at |-> "none"]
NoProcs == <<>>

\* no such call
NoParse == [fn |-> "none"]

-----------------------------------------------------------------------------
(* UsageTracker *)

\* the default record _load_usage returns when usage.json cannot be used
DefaultUsage(now) ==
    [posts_this_week |-> 0, week_start |-> now, is_premium |-> FALSE]

\* "1970-01-01", the week_start _is_new_week assumes when the record has
\* none: the clock reads 0 when the tracker is constructed, some 56 years
\* after that date
EPOCH == 0 - 56 * 365 * 24 * 60 * 60

\* The text of usage.json is a record: valid says whether json.load accepts
\* it, and each key of the JSON object is <<v>> when the object has the key
\* with value v and <<>> when it has not.
InvalidJson ==
    [valid |-> FALSE, posts_this_week |-> <<>>, week_start |-> <<>>,
     is_premium |-> <<>>]

\* dict.get(key, default) on a key of the loaded object
Get(opt, default) == IF opt /= <<>> THEN opt[1] ELSE default

\* a variant of _load_usage that returns the empty object {} where the code
\* returns the default record
LoadUsage_EmptyOnError(file, now) ==
    IF file /= <<>> /\ file[1].valid
    THEN [posts_this_week |-> Get(file[1].posts_this_week, 0),
          week_start |-> Get(file[1].week_start, EPOCH),
          is_premium |-> Get(file[1].is_premium, FALSE)]
    ELSE [posts_this_week |-> 0, week_start |-> EPOCH, is_premium |-> FALSE]

\* _load_usage: the object in usage.json when the file exists and parses,
\* else the default.  Every later read of the record goes through
\* dict.get with a default (0, "1970-01-01", False), so the record is kept
\* with the defaults filled in for the keys the file does not have.
LoadUsage(file, now) ==
    IF file /= <<>> /\ file[1].valid
    THEN [posts_this_week |-> Get(file[1].posts_this_week, 0),
          week_start |-> Get(file[1].week_start, EPOCH),
          is_premium |-> Get(file[1].is_premium, FALSE)]
    ELSE DefaultUsage(now)

\* json.dump of the record
JsonDump(u) ==
    [valid |-> TRUE, posts_this_week |-> <<u.posts_this_week>>,
     week_start |-> <<u.week_start>>, is_premium |-> <<u.is_premium>>]

\* _save_usage: usage.json is overwritten with the whole record
SaveUsage(u) == <<JsonDump(u)>>

\* a variant of _is_new_week that compares with >= where the code has >
IsNewWeek_Inclusive(u, now) == (now - u.week_start) >= WEEK_IN_SECONDS

\* a variant of _is_new_week that reads timedelta.seconds (the part of the
\* difference below one day) where the code reads total_seconds()
IsNewWeek_DayPart(u, now) ==
    ((now - u.week_start) % (24 * 60 * 60)) > WEEK_IN_SECONDS

\* _is_new_week
IsNewWeek(u, now) == (now - u.week_start) > WEEK_IN_SECONDS

\* a variant of can_post that allows posting while remaining >= 0
CanPost_OffByOne(u, now) ==
    IF u.is_premium
    THEN [usage |-> u, allowed |-> TRUE, inf |-> TRUE, remaining |-> 0]
    ELSE LET u1 == IF IsNewWeek(u, now)
                   THEN [u EXCEPT !.posts_this_week = 0, !.week_start = now]
                   ELSE u
             remaining == FREE_TIER_LIMIT - u1.posts_this_week
         IN  [usage |-> u1, allowed |-> remaining >= 0, inf |-> FALSE,
              remaining |-> remaining]

\* can_post: the (can_post, remaining) pair and the record it leaves in
\* memory.  remaining is float("inf") when inf is TRUE.
CanPost(u, now) ==
    IF u.is_premium
    THEN [usage |-> u, allowed |-> TRUE, inf |-> TRUE, remaining |-> 0]
    ELSE LET u1 == IF IsNewWeek(u, now)
                   THEN [u EXCEPT !.posts_this_week = 0, !.week_start = now]
                   ELSE u
             remaining == FREE_TIER_LIMIT - u1.posts_this_week
         IN  [usage |-> u1, allowed |-> remaining > 0, inf |-> FALSE,
              remaining |-> remaining]

\* a variant of record_post that trusts the caller and does not re-check
\* can_post
RecordPost_NoRecheck(u, file, now, count) ==
    IF u.is_premium
    THEN [usage |-> u, file |-> file, ok |-> TRUE, saved |-> FALSE]
    ELSE LET u2 == [u EXCEPT !.posts_this_week = @ + count]
         IN  [usage |-> u2, file |-> SaveUsage(u2), ok |-> TRUE,
              saved |-> TRUE]

\* a variant of record_post that counts and saves for a premium tracker too
RecordPost_CountsPremium(u, file, now, count) ==
    LET c == CanPost(u, now) IN
    IF ~c.allowed
    THEN [usage |-> c.usage, file |-> file, ok |-> FALSE, saved |-> FALSE]
    ELSE LET u2 == [c.usage EXCEPT !.posts_this_week = @ + count]
         IN  [usage |-> u2, file |-> SaveUsage(u2), ok |-> TRUE,
              saved |-> TRUE]

\* a variant of record_post that loads usage.json again before it counts
RecordPost_LoadsFirst(u, file, now, count) ==
    LET u0 == LoadUsage(file, now) IN
    IF u0.is_premium
    THEN [usage |-> u0, file |-> file, ok |-> TRUE, saved |-> FALSE]
    ELSE LET c == CanPost(u0, now) IN
         IF ~c.allowed
         THEN [usage |-> c.usage, file |-> file, ok |-> FALSE, saved |-> FALSE]
         ELSE LET u2 == [c.usage EXCEPT !.posts_this_week = @ + count]
              IN  [usage |-> u2, file |-> SaveUsage(u2), ok |-> TRUE,
                   saved |-> TRUE]

\* record_post(platform_count): the returned boolean, the record left in
\* memory, usage.json afterwards, and whether _save_usage was called
RecordPost(u, file, now, count) ==
    IF u.is_premium
    THEN [usage |-> u, file |-> file, ok |-> TRUE, saved |-> FALSE]
    ELSE LET c == CanPost(u, now) IN
         IF ~c.allowed
         THEN [usage |-> c.usage, file |-> file, ok |-> FALSE, saved |-> FALSE]
         ELSE LET u2 == [c.usage EXCEPT !.posts_this_week = @ + count]
              IN  [usage |-> u2, file |-> SaveUsage(u2), ok |-> TRUE,
                   saved |-> TRUE]

\* a variant of upgrade_to_premium that upgrades only when a key is given
UpgradeToPremium_NeedsKey(u, token) ==
    LET u1 == [u EXCEPT !.is_premium = (token /= "none")]
    IN  [usage |-> u1, file |-> SaveUsage(u1), ok |-> TRUE, saved |-> TRUE]

\* upgrade_to_premium(api_key)
UpgradeToPremium(u, token) ==
    LET u1 == [u EXCEPT !.is_premium = TRUE]
    IN  [usage |-> u1, file |-> SaveUsage(u1), ok |-> TRUE, saved |-> TRUE]

\* get_usage_info: the returned dict and the record left in memory (it
\* calls can_post first).  week_start is <<>> for the "" the code returns
\* when the record has no week_start.
GetUsageInfo(u, now) ==
    LET c == CanPost(u, now)
    IN  [usage |-> c.usage,
         info |-> [can_post |-> c.allowed,
                   posts_this_week |-> c.usage.posts_this_week,
                   inf |-> c.inf,
                   remaining_this_week |-> c.remaining,
                   limit |-> FREE_TIER_LIMIT,
                   is_premium |-> c.usage.is_premium,
                   week_start |-> IF c.usage.week_start = EPOCH THEN <<>>
                                  ELSE <<c.usage.week_start>>]]

\* the record of a call and its result kept in ret
Ret(op, allowed, inf, remaining, count, saved) ==
    [op |-> op, allowed |-> allowed, inf |-> inf, remaining |-> remaining,
     count |-> count, saved |-> saved]

\* hist after a call: pure says that so far every record_post recorded one
\* unit, the window was never reset and the tracker was never upgraded; ok
\* counts the record_post calls that returned true while pure.
HistAfter(h, stillPure, okMore, upgradedNow) ==
    LET p == h.pure /\ stillPure
    IN  [pure |-> p,
         ok |-> IF p THEN h.ok + okMore ELSE 0,
         upgraded |-> h.upgraded \/ upgradedNow]

-----------------------------------------------------------------------------
(* Post and Platform (src/src/social_scheduler/post.py) *)

\* the members of the Platform enum
Platforms == {"TWITTER", "LINKEDIN", "INSTAGRAM", "ALL"}

\* Platform.value
PlatformValue(p) ==
    CASE p = "TWITTER" -> "twitter"
      [] p = "LINKEDIN" -> "linkedin"
      [] p = "INSTAGRAM" -> "instagram"
      [] p = "ALL" -> "all"

\* Platform.from_string on a token already lower-cased and stripped;
\* "ValueError" stands for the raised ValueError
PlatformFromString(s) ==
    CASE s \in {"twitter", "x", "t"} -> "TWITTER"
      [] s \in {"linkedin", "li"} -> "LINKEDIN"
      [] s \in {"instagram", "ig", "insta"} -> "INSTAGRAM"
      [] s \in {"all", "*"} -> "ALL"
      [] OTHER -> "ValueError"

\* Post.scheduled_time is None, a naive datetime or a timezone-aware one
NoTime == [kind |-> "none", t |-> 0]
Naive(t) == [kind |-> "naive", t |-> t]
Aware(t) == [kind |-> "aware", t |-> t]

\* the scheduled_time string of a row: "" for None, else isoformat(), which
\* carries a UTC offset exactly when the datetime is timezone-aware
IsoFormat(d) ==
    CASE d.kind = "none" -> [kind |-> "empty", t |-> 0]
      [] d.kind = "naive" -> [kind |-> "iso", t |-> d.t]
      [] d.kind = "aware" -> [kind |-> "iso_tz", t |-> d.t]

\* datetime.fromisoformat: "ValueError" for a string that is no ISO date
FromIsoFormat(s) ==
    CASE s.kind = "iso" -> Naive(s.t)
      [] s.kind = "iso_tz" -> Aware(s.t)
      [] OTHER -> [kind |-> "ValueError", t |-> 0]

\* Post.to_csv_row, the fields the queue reads (media_paths, alt_text,
\* hashtags and link are carried along untouched and left out)
ToCsvRow(post) ==
    [content |-> post.content,
     platforms |-> [i \in 1..Len(post.platforms) |->
                        PlatformValue(post.platforms[i])],
     scheduled_time |-> IsoFormat(post.scheduled_time)]

\* Post.parse_platforms on the comma-joined string, kept as its tokens
ParsePlatforms(value) ==
    [i \in 1..Len(value) |-> PlatformFromString(value[i])]

\* Post.from_csv_row
FromCsvRow(row) ==
    LET d == FromIsoFormat(row.scheduled_time)
    IN  [content |-> row.content,
         platforms |-> ParsePlatforms(row.platforms),
         scheduled_time |-> IF d.kind = "ValueError" THEN NoTime ELSE d]

Range(s) == {s[i] : i \in 1..Len(s)}

\* A str is the sequence of its characters.  The letters (ASCII; the
\* tokens of the mapping have no others) and the whitespace str.strip()
\* removes (space, tab and newline here)
LowerCase == <<"a", "b", "c", "d", "e", "f", "g", "h", "i", "j", "k", "l", "m",
               "n", "o", "p", "q", "r", "s", "t", "u", "v", "w", "x", "y", "z">>
UpperCase == <<"A", "B", "C", "D", "E", "F", "G", "H", "I", "J", "K", "L", "M",
               "N", "O", "P", "Q", "R", "S", "T", "U", "V", "W", "X", "Y", "Z">>
Whitespace == {" ", "\t", "\n"}

\* str.lower() and str.upper(), one character and a whole str
LowerChar(c) ==
    IF \E i \in 1..26 : UpperCase[i] = c
    THEN LowerCase[CHOOSE i \in 1..26 : UpperCase[i] = c]
    ELSE c
UpperChar(c) ==
    IF \E i \in 1..26 : LowerCase[i] = c
    THEN UpperCase[CHOOSE i \in 1..26 : LowerCase[i] = c]
    ELSE c
StrLower(s) == [i \in 1..Len(s) |-> LowerChar(s[i])]
StrUpper(s) == [i \in 1..Len(s) |-> UpperChar(s[i])]

\* str.strip()
Strip(s) ==
    LET inner == {i \in 1..Len(s) : s[i] \notin Whitespace}
    IN  IF inner = {} THEN <<>>
        ELSE SubSeq(s, CHOOSE i \in inner : \A j \in inner : i <= j,
                       CHOOSE i \in inner : \A j \in inner : i >= j)

\* str.split(","): one more part than there are commas, empty parts kept
Split(s) ==
    LET commas == {i \in 1..Len(s) : s[i] = ","}
        n == Cardinality(commas)
        at(k) == IF k = 0 THEN 0
                 ELSE IF k = n + 1 THEN Len(s) + 1
                 ELSE CHOOSE i \in commas :
                          Cardinality({j \in commas : j < i}) = k - 1
    IN  [k \in 1..(n + 1) |-> SubSeq(s, at(k - 1) + 1, at(k) - 1)]

\* the mapping dict of Platform.from_string
Mapping ==
    <<"t", "w", "i", "t", "t", "e", "r">> :> "TWITTER"
    @@ <<"x">> :> "TWITTER"
    @@ <<"t">> :> "TWITTER"
    @@ <<"l", "i", "n", "k", "e", "d", "i", "n">> :> "LINKEDIN"
    @@ <<"l", "i">> :> "LINKEDIN"
    @@ <<"i", "n", "s", "t", "a", "g", "r", "a", "m">> :> "INSTAGRAM"
    @@ <<"i", "g">> :> "INSTAGRAM"
    @@ <<"i", "n", "s", "t", "a">> :> "INSTAGRAM"
    @@ <<"a", "l", "l">> :> "ALL"
    @@ <<"*">> :> "ALL"

\* what a call returns, or the ValueError it raises with its message
Returns(v) == [returns |-> v]
ValueError(message) == [raises |-> "ValueError", message |-> message]

\* Platform.from_string
FromString_CaseSensitive(value) ==
    LET normalized == Strip(value)
    IN  IF normalized \notin DOMAIN Mapping
        THEN ValueError(<<"Unknown platform: ">> \o value)
        ELSE Returns(Mapping[normalized])

FromString(value) ==
    LET normalized == Strip(StrLower(value))
    IN  IF normalized \notin DOMAIN Mapping
        THEN ValueError(<<"Unknown platform: ">> \o value)
        ELSE Returns(Mapping[normalized])

\* the list comprehension of parse_platforms over the parts from the i-th
\* on: a part that is empty once stripped is skipped, the first ValueError
\* ends the call
RECURSIVE ParseLoop(_, _, _)
ParseLoop(parts, i, acc) ==
    IF i > Len(parts) THEN Returns(acc)
    ELSE IF Strip(parts[i]) = <<>> THEN ParseLoop(parts, i + 1, acc)
    ELSE LET r == FromString(Strip(parts[i]))
         IN  IF "raises" \in DOMAIN r THEN r
             ELSE ParseLoop(parts, i + 1, Append(acc, r.returns))

\* Post.parse_platforms on the str itself
ParsePlatformsStr(value) ==
    IF value = <<>> THEN Returns(<<>>)
    ELSE ParseLoop(Split(value), 1, <<>>)

\* s[:k] of Python: the first k characters, or all but the last -k when k
\* is negative
SliceTo(s, k) ==
    IF k >= 0 THEN SubSeq(s, 1, IF k <= Len(s) THEN k ELSE Len(s))
    ELSE SubSeq(s, 1, IF Len(s) + k >= 0 THEN Len(s) + k ELSE 0)

\* tag.lstrip('#')
RECURSIVE LStripHash(_)
LStripHash(tag) ==
    IF tag /= <<>> /\ Head(tag) = "#" THEN LStripHash(Tail(tag)) ELSE tag

\* " ".join(f"#{tag.lstrip('#')}" for tag in hashtags)
RECURSIVE JoinTags(_)
JoinTags(hashtags) ==
    IF hashtags = <<>> THEN <<>>
    ELSE IF Len(hashtags) = 1 THEN <<"#">> \o LStripHash(hashtags[1])
    ELSE <<"#">> \o LStripHash(hashtags[1]) \o <<" ">>
         \o JoinTags(Tail(hashtags))

\* the content with the hashtags appended, before any truncation
Composed(post) ==
    IF post.hashtags /= <<>>
    THEN Strip(post.content \o <<"\n", "\n">> \o JoinTags(post.hashtags))
    ELSE post.content

\* Post.get_full_content; max_length is <<>> for None and <<n>> for n
GetFullContent(post, max_length) ==
    LET content == Composed(post)
    IN  IF /\ max_length /= <<>>
           /\ max_length[1] /= 0
           /\ Len(content) > max_length[1]
        THEN SliceTo(content, max_length[1] - 3) \o <<".", ".", ".">>
        ELSE content

-----------------------------------------------------------------------------
(* SocialScheduler.post *)

\* one turn of the platform loop of post on platform p, out being whether
\* the Publisher succeeds (it fails by returning (False, error) or by
\* raising, which post catches): results is the dict platform -> success,
\* a later attempt on the same platform overwriting an earlier one, and
\* called lists the Publisher invocations in order
Attempt(acc, p, out) ==
    IF p = "ALL" THEN acc
    ELSE [results |-> [q \in DOMAIN acc.results \cup {p} |->
                           IF q = p THEN out ELSE acc.results[q]],
          called |-> Append(acc.called, p)]

\* the platform loop of post; outs[i] is whether the Publisher succeeds on
\* the i-th platform
RECURSIVE PlatformLoop(_, _, _, _)
PlatformLoop(platforms, outs, i, acc) ==
    IF i > Len(platforms) THEN acc
    ELSE PlatformLoop(platforms, outs, i + 1,
                      Attempt(acc, platforms[i], outs[i]))

\* a variant of the truncation that keeps the last platforms of the list
\* (platforms[-remaining:])
PostPlatforms_KeepsLast(c, platforms) ==
    LET is_premium == c.usage.is_premium
        expanded == IF "ALL" \in Range(platforms)
                    THEN <<"TWITTER", "LINKEDIN", "INSTAGRAM">>
                    ELSE platforms
    IN  IF ~is_premium /\ Len(expanded) > c.remaining
        THEN SubSeq(expanded, Len(expanded) - c.remaining + 1, Len(expanded))
        ELSE expanded

\* a variant of post without the expansion of ALL
PostPlatforms_NoExpansion(c, platforms) ==
    LET is_premium == c.usage.is_premium
    IN  IF ~is_premium /\ Len(platforms) > c.remaining
        THEN SubSeq(platforms, 1, c.remaining)
        ELSE platforms

\* a variant of post without the truncation
PostPlatforms_Untruncated(c, platforms) ==
    IF "ALL" \in Range(platforms)
    THEN <<"TWITTER", "LINKEDIN", "INSTAGRAM">>
    ELSE platforms

\* the platforms post goes through, given what can_post returned (c): ALL
\* expanded, then the list cut to the remaining quota unless premium
PostPlatforms(c, platforms) ==
    LET is_premium == c.usage.is_premium
        expanded == IF "ALL" \in Range(platforms)
                    THEN <<"TWITTER", "LINKEDIN", "INSTAGRAM">>
                    ELSE platforms
    IN  IF ~is_premium /\ Len(expanded) > c.remaining
        THEN SubSeq(expanded, 1, c.remaining)
        ELSE expanded

\* a variant of successful_count that counts every entry of results
SuccessfulCount_Attempted(res) == Cardinality(DOMAIN res)

\* successful_count: the entries of results that are successes
SuccessfulCount(res) ==
    Cardinality({q \in DOMAIN res : res[q]})

\* a variant of the end of post that calls record_post whatever the count
RecordRound_Always(u, file, now, res) ==
    LET successful_count == SuccessfulCount(res)
        r == RecordPost(u, file, now, successful_count)
    IN  [usage |-> r.usage, file |-> r.file,
         recorded |-> <<successful_count>>]

\* the end of post: record_post(successful_count) when the count is
\* positive; recorded lists the counts record_post was called with
RecordRound(u, file, now, res) ==
    LET successful_count == SuccessfulCount(res)
    IN  IF successful_count > 0
        THEN LET r == RecordPost(u, file, now, successful_count)
             IN  [usage |-> r.usage, file |-> r.file,
                  recorded |-> <<successful_count>>]
        ELSE [usage |-> u, file |-> file, recorded |-> <<>>]

\* post(post) as a whole: the usage record and usage.json afterwards, the
\* returned results, and the platforms the Publisher was invoked for, in
\* order
PostRound(u, file, now, platforms, outs) ==
    LET c == CanPost(u, now)
    IN  IF ~c.allowed
        THEN [usage |-> c.usage, file |-> file, results |-> <<>>,
              called |-> <<>>]
        ELSE LET cut == PostPlatforms(c, platforms)
                 loop == PlatformLoop(cut, outs, 1,
                                      [results |-> <<>>, called |-> <<>>])
                 r == RecordRound(c.usage, file, now, loop.results)
             IN  [usage |-> r.usage, file |-> r.file,
                  results |-> loop.results, called |-> loop.called]

-----------------------------------------------------------------------------
(* The schedule queue *)

\* the list held by a scheduled.json whose text json.load rejects
\* (JSONDecodeError): no list of rows, written as a list of one record that
\* is no row
InvalidQueue == <<[invalid_json |-> TRUE]>>

\* whether scheduled.json exists and json.load returns its list
Readable(file) == file /= <<>> /\ file[1] /= InvalidQueue

\* json.load of scheduled.json in schedule_post: [] when the file is absent
\* and when it cannot be read (the except branch passes)
LoadQueue(file) == IF Readable(file) THEN file[1] ELSE <<>>

\* a variant of the due test that compares with < where the code has <=
Classify_StrictlyBefore(row, now) ==
    LET d == FromIsoFormat(row.scheduled_time) IN
    IF d.kind = "ValueError" THEN "remaining"
    ELSE IF d.kind = "aware" THEN "remaining"
    ELSE IF d.t < now THEN "due" ELSE "remaining"

\* a variant of the due test without the else branch: a row that is not yet
\* due is appended to neither list
Classify_DropsFuture(row, now) ==
    LET d == FromIsoFormat(row.scheduled_time) IN
    IF d.kind = "ValueError" THEN "remaining"
    ELSE IF d.kind = "aware" THEN "remaining"
    ELSE IF d.t <= now THEN "due" ELSE "dropped"

\* a variant of the due test whose except branch skips the row: a row whose
\* time cannot be read or compared is appended to neither list
Classify_DropsUnparsable(row, now) ==
    LET d == FromIsoFormat(row.scheduled_time) IN
    IF d.kind = "ValueError" THEN "dropped"
    ELSE IF d.kind = "aware" THEN "dropped"
    ELSE IF d.t <= now THEN "due" ELSE "remaining"

\* the try block of run_scheduled's loop for one row: "due" or "remaining".
\* fromisoformat raises ValueError on "" and on a non-date; comparing a
\* timezone-aware datetime with the naive now raises TypeError; both are
\* caught and the row is kept.
Classify(row, now) ==
    LET d == FromIsoFormat(row.scheduled_time) IN
    IF d.kind = "ValueError" THEN "remaining"
    ELSE IF d.kind = "aware" THEN "remaining"
    ELSE IF d.t <= now THEN "due" ELSE "remaining"

\* run_scheduled's partition loop over scheduled_posts
RECURSIVE PartitionLoop(_, _, _, _, _)
PartitionLoop(scheduled_posts, now, i, due, remaining) ==
    IF i > Len(scheduled_posts)
    THEN [due |-> due, remaining |-> remaining]
    ELSE LET k == Classify(scheduled_posts[i], now) IN
         PartitionLoop(scheduled_posts, now, i + 1,
             IF k = "due" THEN Append(due, scheduled_posts[i]) ELSE due,
             IF k = "remaining" THEN Append(remaining, scheduled_posts[i])
                                ELSE remaining)

\* a variant of the rewrite that dumps scheduled_posts where the code dumps
\* remaining_posts
Drain_WritesAll(scheduled_posts, now) ==
    LET p == PartitionLoop(scheduled_posts, now, 1, <<>>, <<>>)
    IN  [due |-> p.due, written |-> scheduled_posts]

\* a variant of the partition that puts each due row in front of due_posts
\* (insert(0, post_data) where the code appends)
Drain_NewestFirst(scheduled_posts, now) ==
    LET p == PartitionLoop(scheduled_posts, now, 1, <<>>, <<>>)
    IN  [due |-> [i \in 1..Len(p.due) |-> p.due[Len(p.due) + 1 - i]],
         written |-> p.remaining]

\* run_scheduled from computing now to the rewrite of scheduled.json:
\* due_posts, and the list dumped to the file
Drain(scheduled_posts, now) ==
    LET p == PartitionLoop(scheduled_posts, now, 1, <<>>, <<>>)
    IN  [due |-> p.due, written |-> p.remaining]

\* Python values a call hands back: a string (its text a tuple of parts)
\* and a boolean
Str(text) == [type |-> "str", text |-> text, bool |-> FALSE]
Bool(b) == [type |-> "bool", text |-> <<>>, bool |-> b]

\* a variant of the identifier that is built from the date of the clock
\* reading alone
PostId_FromDate(now) == Str(<<"post_", now \div (24 * 60 * 60)>>)

\* schedule_post: post.id = f"post_{datetime.utcnow().timestamp()}"
PostId(now) == Str(<<"post_", now>>)

\* a variant of schedule_post without the except branch: over a file that
\* cannot be read the JSONDecodeError leaves the call and nothing is written
Enqueue_RaisesOnInvalid(file, post) ==
    IF file /= <<>> /\ file[1] = InvalidQueue THEN file
    ELSE <<Append(LoadQueue(file), ToCsvRow(post))>>

\* a variant of schedule_post that puts the new row in front
Enqueue_Prepends(file, post) == <<<<ToCsvRow(post)>> \o LoadQueue(file)>>

\* schedule_post: scheduled.json after appending the post's row
Enqueue(file, post) == <<Append(LoadQueue(file), ToCsvRow(post))>>

-----------------------------------------------------------------------------
(* The state after construction: a fresh data directory, a fresh tracker *)

Init ==
    /\ clock = 0
    /\ ticks = 0
    /\ round = NoRound
    /\ parsed = NoParse
    /\ procs = NoProcs
    /\ usageFile = <<>>
    /\ usage = LoadUsage(<<>>, 0)
    /\ ret = Ret("init", FALSE, FALSE, 0, 0, FALSE)
    /\ prev = LoadUsage(<<>>, 0)
    /\ hist = [pure |-> TRUE, ok |-> 0, upgraded |-> FALSE]
    /\ schedFile = <<>>
    /\ pc = "idle"
    /\ due_posts = <<>>
    /\ results = <<>>
    /\ run = [read |-> <<>>, due |-> <<>>, now |-> -1, again |-> FALSE]
    /\ log = <<>>

-----------------------------------------------------------------------------
(* UsageTracker calls *)

\* time passes
Tick ==
    /\ ticks < MaxTicks
    /\ \E d \in TickDeltas : clock' = clock + d
    /\ ticks' = ticks + 1
    /\ ret' = Ret("tick", FALSE, FALSE, 0, 0, FALSE)
    /\ UNCHANGED <<round, parsed, procs, usage, usageFile, prev, hist>>
    /\ UNCHANGED queueVars

\* tracker.can_post()
DoCanPost ==
    LET c == CanPost(usage, clock) IN
    /\ usage' = c.usage
    /\ ret' = Ret("can_post", c.allowed, c.inf, c.remaining, 0, FALSE)
    /\ prev' = usage
    /\ hist' = HistAfter(hist, c.usage.week_start = usage.week_start, 0, FALSE)
    /\ UNCHANGED <<round, parsed, procs, clock, ticks, usageFile>>
    /\ UNCHANGED queueVars

\* tracker.get_usage_info()
DoGetUsageInfo ==
    LET g == GetUsageInfo(usage, clock) IN
    /\ usage' = g.usage
    /\ ret' = [op |-> "get_usage_info", allowed |-> g.info.can_post,
               inf |-> g.info.inf, remaining |-> g.info.remaining_this_week,
               count |-> 0, saved |-> FALSE, info |-> g.info]
    /\ prev' = usage
    /\ hist' = HistAfter(hist, g.usage.week_start = usage.week_start, 0, FALSE)
    /\ UNCHANGED <<round, parsed, procs, clock, ticks, usageFile>>
    /\ UNCHANGED queueVars

\* tracker.record_post(count)
DoRecordPost ==
    \E count \in 1..MaxCount :
        LET r == RecordPost(usage, usageFile, clock, count) IN
        /\ usage' = r.usage
        /\ usageFile' = r.file
        /\ ret' = Ret("record_post", r.ok, FALSE, 0, count, r.saved)
        /\ prev' = usage
        /\ hist' = HistAfter(hist,
                             count = 1 /\ r.usage.week_start = usage.week_start,
                             IF r.ok THEN 1 ELSE 0, FALSE)
        /\ UNCHANGED <<round, parsed, procs, clock, ticks>>
        /\ UNCHANGED queueVars

\* tracker.upgrade_to_premium(token)
DoUpgrade ==
    \E token \in Tokens :
        LET r == UpgradeToPremium(usage, token) IN
        /\ usage' = r.usage
        /\ usageFile' = r.file
        /\ ret' = Ret("upgrade_to_premium", r.ok, FALSE, 0, 0, r.saved)
        /\ prev' = usage
        /\ hist' = HistAfter(hist, FALSE, 0, TRUE)
        /\ UNCHANGED <<round, parsed, procs, clock, ticks>>
        /\ UNCHANGED queueVars

-----------------------------------------------------------------------------
(* SocialScheduler calls: schedule_post and run_scheduled, in one process *)

\* the platform lists and schedule times posts are created with: no time,
\* the naive times 1 and 2, the timezone-aware time 1
PlatformLists == {<<"ALL">>}
SchedTimes == {NoTime, Naive(1), Naive(2), Aware(1)}

\* the Publisher's outcome on each platform of a round: success on all,
\* failure on all, failure on the first only
Outcomes == {[i \in 1..3 |-> TRUE], [i \in 1..3 |-> FALSE],
             [i \in 1..3 |-> i /= 1]}

\* a second passes
QTick ==
    /\ clock <= MaxTime
    /\ clock' = clock + 1
    /\ UNCHANGED <<round, parsed, procs, ticks, usageVars, queueVars>>

\* scheduler.schedule_post(post); the n-th post has content n
DoSchedulePost ==
    /\ pc = "idle"
    /\ Len(log) < MaxPosts
    /\ \E pl \in PlatformLists, st \in SchedTimes :
          LET post == [content |-> Len(log) + 1, platforms |-> pl,
                       scheduled_time |-> st]
          IN  /\ schedFile' = Enqueue(schedFile, post)
              /\ log' = Append(log, [row |-> ToCsvRow(post), due |-> 0,
                                     dispatched |-> 0, called |-> FALSE,
                                     lost |-> FALSE])
    /\ run' = [run EXCEPT !.now = -1]
    /\ UNCHANGED <<round, parsed, procs, clock, ticks, usageVars, pc, due_posts, results>>

\* scheduler.run_scheduled(), up to and including the rewrite of
\* scheduled.json (or the early return of [] when there is no file or the
\* file cannot be read)
RunStart ==
    /\ pc = "idle"
    /\ results' = <<>>
    /\ IF ~Readable(schedFile)
       THEN /\ run' = [read |-> <<>>, due |-> <<>>, now |-> clock,
                       again |-> FALSE]
            /\ UNCHANGED <<schedFile, pc, due_posts, log>>
       ELSE LET d == Drain(schedFile[1], clock) IN
            /\ schedFile' = <<d.written>>
            /\ due_posts' = d.due
            /\ pc' = "dispatch"
            /\ run' = [read |-> schedFile[1], due |-> d.due, now |-> clock,
                       again |-> run.now = clock]
            /\ log' = [i \in DOMAIN log |->
                          IF log[i].row \in Range(d.due)
                          THEN [log[i] EXCEPT !.due = @ + 1]
                          ELSE log[i]]
    /\ UNCHANGED <<round, parsed, procs, clock, ticks, usageVars>>

\* one turn of run_scheduled's dispatch loop: post = from_csv_row(row),
\* result = await self.post(post)
RunDispatch ==
    /\ pc = "dispatch"
    /\ due_posts /= <<>>
    /\ \E outs \in Outcomes :
          LET post_data == Head(due_posts)
              post == FromCsvRow(post_data)
              r == PostRound(usage, usageFile, clock, post.platforms, outs)
          IN  /\ usage' = r.usage
              /\ usageFile' = r.file
              /\ results' = Append(results, [post |-> post_data,
                                             result |-> r.results])
              /\ due_posts' = Tail(due_posts)
              /\ log' = [log EXCEPT
                            ![post_data.content].dispatched = @ + 1,
                            ![post_data.content].called = @ \/ r.called /= <<>>]
    /\ UNCHANGED <<round, parsed, procs, clock, ticks, ret, prev, hist, schedFile, pc, run>>

\* run_scheduled returns results (complete in the state before this step)
RunReturn ==
    /\ pc = "dispatch"
    /\ due_posts = <<>>
    /\ pc' = "idle"
    /\ results' = <<>>
    /\ run' = [run EXCEPT !.read = <<>>, !.due = <<>>, !.again = FALSE]
    /\ UNCHANGED <<round, parsed, procs, clock, ticks, usageVars, schedFile, due_posts, log>>

\* the run ends after the rewrite and before all due posts are dispatched:
\* self.post raises (the exception leaves run_scheduled) or the process is
\* killed and started again, loading usage.json anew.  It ends either
\* before post is called for the next due row, or inside that call, before
\* record_post, with or without a Publisher invocation made.
RunAbort ==
    /\ pc = "dispatch"
    /\ due_posts /= <<>>
    /\ pc' = "idle"
    /\ due_posts' = <<>>
    /\ results' = <<>>
    /\ run' = [run EXCEPT !.read = <<>>, !.due = <<>>, !.again = FALSE]
    /\ \E inPost \in BOOLEAN, killed \in BOOLEAN, published \in BOOLEAN :
          LET post_data == Head(due_posts)
              c == CanPost(usage, clock)
              cut == IF c.allowed
                     THEN PostPlatforms(c, FromCsvRow(post_data).platforms)
                     ELSE <<>>
              unreached == IF inPost THEN Range(Tail(due_posts))
                                     ELSE Range(due_posts)
          IN  /\ published => (inPost /\ cut /= <<>>)
              /\ usage' = IF killed THEN LoadUsage(usageFile, clock)
                          ELSE IF published THEN c.usage ELSE usage
              /\ log' = [i \in DOMAIN log |->
                            IF log[i].row \in unreached
                            THEN [log[i] EXCEPT !.lost = TRUE]
                            ELSE IF inPost /\ log[i].row = post_data
                            THEN [log[i] EXCEPT !.dispatched = @ + 1,
                                                !.called = @ \/ published]
                            ELSE log[i]]
    /\ UNCHANGED <<round, parsed, procs, clock, ticks, usageFile, ret, prev, hist, schedFile>>

QNext ==
    \/ QTick
    \/ DoSchedulePost
    \/ RunStart
    \/ RunDispatch
    \/ RunReturn
    \/ RunAbort

QueueSpec == Init /\ [][QNext]_vars

\* the same process when time goes on and run_scheduled is called again
\* and again, a run that was started going on
QueueLiveSpec ==
    /\ Init /\ [][QNext]_vars
    /\ WF_vars(QTick)
    /\ WF_vars(RunStart \/ RunDispatch \/ RunReturn)

-----------------------------------------------------------------------------
(* The same calls over a scheduled.json that is not JSON *)

InvalidInit ==
    /\ clock = 0
    /\ ticks = 0
    /\ round = NoRound
    /\ parsed = NoParse
    /\ procs = NoProcs
    /\ usageFile = <<>>
    /\ usage = LoadUsage(<<>>, 0)
    /\ ret = Ret("init", FALSE, FALSE, 0, 0, FALSE)
    /\ prev = LoadUsage(<<>>, 0)
    /\ hist = [pure |-> TRUE, ok |-> 0, upgraded |-> FALSE]
    /\ schedFile = <<InvalidQueue>>
    /\ pc = "idle"
    /\ due_posts = <<>>
    /\ results = <<>>
    /\ run = [read |-> <<>>, due |-> <<>>, now |-> -1, again |-> FALSE]
    /\ log = <<>>

InvalidQueueSpec == InvalidInit /\ [][QNext]_vars

-----------------------------------------------------------------------------
(* schedule_post alone, with what it hands to its caller: log keeps, per    *)
(* post, the identifier left in post.id and the clock reading of the call   *)
(* (at); ret keeps the returned value                                       *)

\* scheduler.schedule_post(post); the n-th post has content n
DoSchedulePostId ==
    /\ pc = "idle"
    /\ Len(log) < MaxPosts
    /\ \E pl \in PlatformLists, st \in SchedTimes :
          LET post == [content |-> Len(log) + 1, platforms |-> pl,
                       scheduled_time |-> st, id |-> PostId(clock)]
          IN  /\ schedFile' = Enqueue(schedFile, post)
              /\ log' = Append(log, [row |-> ToCsvRow(post), id |-> post.id,
                                     at |-> clock])
    /\ ret' = [op |-> "schedule_post", value |-> Bool(TRUE)]
    /\ UNCHANGED <<round, parsed, procs, clock, ticks, usage, usageFile, prev, hist,
                   pc, due_posts, results, run>>

IdNext ==
    \/ QTick
    \/ DoSchedulePostId

IdSpec == Init /\ [][IdNext]_vars

-----------------------------------------------------------------------------
(* The same calls over a scheduled.json that was edited by hand: it holds   *)
(* one row whose scheduled_time is a text that is no ISO date               *)

\* the row of the edited file (it counts as the first enqueued post)
EditedRow ==
    [content |-> 1, platforms |-> <<"all">>,
     scheduled_time |-> [kind |-> "text", t |-> 0]]

EditedInit ==
    /\ clock = 0
    /\ ticks = 0
    /\ round = NoRound
    /\ parsed = NoParse
    /\ procs = NoProcs
    /\ usageFile = <<>>
    /\ usage = LoadUsage(<<>>, 0)
    /\ ret = Ret("init", FALSE, FALSE, 0, 0, FALSE)
    /\ prev = LoadUsage(<<>>, 0)
    /\ hist = [pure |-> TRUE, ok |-> 0, upgraded |-> FALSE]
    /\ schedFile = <<<<EditedRow>>>>
    /\ pc = "idle"
    /\ due_posts = <<>>
    /\ results = <<>>
    /\ run = [read |-> <<>>, due |-> <<>>, now |-> -1, again |-> FALSE]
    /\ log = <<[row |-> EditedRow, due |-> 0, dispatched |-> 0,
                called |-> FALSE, lost |-> FALSE]>>

EditedQueueSpec == EditedInit /\ [][QNext]_vars

Next ==
    \/ Tick
    \/ DoCanPost
    \/ DoGetUsageInfo
    \/ DoRecordPost
    \/ DoUpgrade

Spec == Init /\ [][Next]_vars

-----------------------------------------------------------------------------
(* A tracker constructed over a usage.json that is already there, and then  *)
(* queried                                                                  *)

\* the posts_this_week values found in the file
StoredCounts == {0, 3, FREE_TIER_LIMIT}

\* the week_start values found in the file: a week before the construction
\* and the moment of the construction
StoredStarts == {0 - WEEK_IN_SECONDS, 0}

\* what <<v>> or nothing can stand for a key of the file's object
Optional(S) == {<<>>} \cup {<<v>> : v \in S}

\* the contents of usage.json the tracker is constructed over: no file, a
\* text that is not JSON, an object with any of the three keys
UsageFiles ==
    {<<>>, <<InvalidJson>>} \cup
    {<<[valid |-> TRUE, posts_this_week |-> p, week_start |-> w,
        is_premium |-> m]>> :
        p \in Optional(StoredCounts), w \in Optional(StoredStarts),
        m \in Optional(BOOLEAN)}

\* UsageTracker(data_dir) over each of these files
LoadInit ==
    /\ clock = 0
    /\ ticks = 0
    /\ round = NoRound
    /\ parsed = NoParse
    /\ procs = NoProcs
    /\ usageFile \in UsageFiles
    /\ usage = LoadUsage(usageFile, 0)
    /\ ret = Ret("init", FALSE, FALSE, 0, 0, FALSE)
    /\ prev = usage
    /\ hist = [pure |-> TRUE, ok |-> 0, upgraded |-> FALSE]
    /\ schedFile = <<>>
    /\ pc = "idle"
    /\ due_posts = <<>>
    /\ results = <<>>
    /\ run = [read |-> <<>>, due |-> <<>>, now |-> -1, again |-> FALSE]
    /\ log = <<>>

LoadNext ==
    \/ Tick
    \/ DoCanPost
    \/ DoGetUsageInfo

LoadSpec == LoadInit /\ [][LoadNext]_vars

-----------------------------------------------------------------------------
(* SocialScheduler.post, one platform attempt at a time *)

\* the platform lists of the posts: every list of at most MaxLen platforms,
\* ALL and repeated platforms included
PostLists == UNION {[1..n -> Platforms] : n \in 0..MaxLen}

\* post(post) up to the platform loop: can_post, the refusal when the quota
\* is used up, the expansion of ALL and the truncation.  round keeps the
\* list given, the list the loop goes through (platforms) and where it is
\* (i), results and the Publisher invocations so far (acc) with the
\* outcome of each invocation (outs), the usage
\* record before the call (start), what can_post returned (c), and the
\* counts record_post was called with (recorded).
PostStart ==
    /\ round.at = "none"
    /\ \E given \in PostLists :
          LET c == CanPost(usage, clock) IN
          /\ usage' = c.usage
          /\ round' = [at |-> IF c.allowed THEN "loop" ELSE "refused",
                       given |-> given,
                       platforms |-> IF c.allowed
                                     THEN PostPlatforms(c, given) ELSE <<>>,
                       i |-> 1,
                       acc |-> [results |-> <<>>, called |-> <<>>],
                       outs |-> <<>>,
                       start |-> usage,
                       c |-> [allowed |-> c.allowed, inf |-> c.inf,
                              remaining |-> c.remaining],
                       recorded |-> <<>>]
    /\ UNCHANGED <<parsed, procs, clock, ticks, usageFile, ret, prev, hist, queueVars>>

\* one turn of the platform loop: the Publisher succeeds or fails
PostAttempt ==
    /\ round.at = "loop"
    /\ round.i <= Len(round.platforms)
    /\ \E out \in BOOLEAN :
          round' = [round EXCEPT
                       !.acc = Attempt(@, round.platforms[round.i], out),
                       !.outs = IF round.platforms[round.i] = "ALL" THEN @
                                ELSE Append(@, out),
                       !.i = @ + 1]
    /\ UNCHANGED <<parsed, procs, clock, ticks, usageVars, queueVars>>

\* self._context.new_page() raises: it is called outside the try block, so
\* the exception leaves post before record_post
PostRaises ==
    /\ round.at = "loop"
    /\ round.i <= Len(round.platforms)
    /\ round' = [round EXCEPT !.at = "raised"]
    /\ UNCHANGED <<parsed, procs, clock, ticks, usageVars, queueVars>>

\* the end of post: successful_count, record_post, return results
PostFinish ==
    /\ round.at = "loop"
    /\ round.i > Len(round.platforms)
    /\ LET r == RecordRound(usage, usageFile, clock, round.acc.results) IN
       /\ usage' = r.usage
       /\ usageFile' = r.file
       /\ round' = [round EXCEPT !.at = "returned", !.recorded = r.recorded]
    /\ UNCHANGED <<parsed, procs, clock, ticks, ret, prev, hist, queueVars>>

\* the caller has the result of post (which round holds in the state before
\* this step)
PostDone ==
    /\ round.at \in {"refused", "raised", "returned"}
    /\ round' = NoRound
    /\ UNCHANGED <<parsed, procs, clock, ticks, usageVars, queueVars>>

\* more than a week passes, between two posts or during one (the Publisher
\* takes its time)
PostWeekPasses ==
    /\ ticks < MaxWeeks
    /\ ticks' = ticks + 1
    /\ clock' = clock + WEEK_IN_SECONDS + 1
    /\ UNCHANGED <<round, parsed, procs, usageVars, queueVars>>

\* tracker.upgrade_to_premium(token) between two posts
PostUpgrade ==
    /\ round.at = "none"
    /\ DoUpgrade

PostNext ==
    \/ PostStart
    \/ PostAttempt
    \/ PostRaises
    \/ PostFinish
    \/ PostDone
    \/ PostWeekPasses
    \/ PostUpgrade

PostSpec == Init /\ [][PostNext]_vars

-----------------------------------------------------------------------------
(* Two processes (two CLI invocations) over one data directory, each with   *)
(* its own UsageTracker.  A step is one call, which reads or writes         *)
(* usage.json at most once.  No time passes: all of it is one window.       *)

Procs == {1, 2}

\* per process: whether it has a tracker (at), the tracker's record
\* (usage), and as history the count it loaded (loaded), the sum of the
\* counts its record_post calls returned true for since (own), and whether
\* it is the process that wrote usage.json last (wrote)
RaceInit ==
    /\ clock = 0
    /\ ticks = 0
    /\ round = NoRound
    /\ parsed = NoParse
    /\ procs = [p \in Procs |->
                   [at |-> "none", usage |-> DefaultUsage(0), loaded |-> 0,
                    own |-> 0, wrote |-> FALSE]]
    /\ usageFile = <<>>
    /\ usage = LoadUsage(<<>>, 0)
    /\ ret = Ret("init", FALSE, FALSE, 0, 0, FALSE)
    /\ prev = LoadUsage(<<>>, 0)
    /\ hist = [pure |-> TRUE, ok |-> 0, upgraded |-> FALSE]
    /\ schedFile = <<>>
    /\ pc = "idle"
    /\ due_posts = <<>>
    /\ results = <<>>
    /\ run = [read |-> <<>>, due |-> <<>>, now |-> -1, again |-> FALSE]
    /\ log = <<>>

\* process p starts: UsageTracker(data_dir) loads usage.json
ProcConstruct(p) ==
    /\ procs[p].at = "none"
    /\ LET u == LoadUsage(usageFile, clock) IN
       procs' = [procs EXCEPT ![p] = [at |-> "loaded", usage |-> u,
                                      loaded |-> u.posts_this_week,
                                      own |-> 0, wrote |-> @.wrote]]
    /\ UNCHANGED <<parsed, round, clock, ticks, usageVars, queueVars>>

\* process p calls tracker.record_post(count)
ProcRecordPost(p) ==
    /\ procs[p].at = "loaded"
    /\ \E count \in 1..MaxCount :
          LET r == RecordPost(procs[p].usage, usageFile, clock, count) IN
          /\ usageFile' = r.file
          /\ procs' = [q \in Procs |->
                          IF q = p
                          THEN [procs[p] EXCEPT
                                   !.usage = r.usage,
                                   !.own = IF r.ok THEN @ + count ELSE @,
                                   !.wrote = @ \/ r.saved]
                          ELSE [procs[q] EXCEPT
                                   !.wrote = @ /\ ~r.saved]]
    /\ UNCHANGED <<parsed, round, clock, ticks, usage, ret, prev, hist, queueVars>>

\* process p ends
ProcExit(p) ==
    /\ procs[p].at = "loaded"
    /\ procs' = [procs EXCEPT ![p].at = "none"]
    /\ UNCHANGED <<parsed, round, clock, ticks, usageVars, queueVars>>

RaceNext ==
    \E p \in Procs :
        \/ ProcConstruct(p)
        \/ ProcRecordPost(p)
        \/ ProcExit(p)

UsageRaceSpec == RaceInit /\ [][RaceNext]_vars

-----------------------------------------------------------------------------
(* Two processes over one scheduled.json, each calling schedule_post or     *)
(* run_scheduled.  A step is one read or one write of the file: both calls  *)
(* read the whole file, compute, and write the whole file.                  *)

\* the scheduled times of the posts of the two processes
RaceTimes == {Naive(1), Naive(2)}

\* per process: where it is ("idle", "sched" between schedule_post's read
\* and its write, "run" between run_scheduled's read and its rewrite), the
\* file as it read it (file) and the post it schedules (post).
\* log keeps per post its row, how often a run returned it as due (due),
\* whether its schedule_post has written (written), and whether a run's
\* rewrite took it out of the file without returning it as due (erased).
QueueRaceInit ==
    /\ clock = 0
    /\ ticks = 0
    /\ round = NoRound
    /\ parsed = NoParse
    /\ procs = [p \in Procs |->
                   [at |-> "idle", file |-> <<>>, post |-> <<>>]]
    /\ usageFile = <<>>
    /\ usage = LoadUsage(<<>>, 0)
    /\ ret = Ret("init", FALSE, FALSE, 0, 0, FALSE)
    /\ prev = LoadUsage(<<>>, 0)
    /\ hist = [pure |-> TRUE, ok |-> 0, upgraded |-> FALSE]
    /\ schedFile = <<>>
    /\ pc = "idle"
    /\ due_posts = <<>>
    /\ results = <<>>
    /\ run = [read |-> <<>>, due |-> <<>>, now |-> -1, again |-> FALSE]
    /\ log = <<>>

\* schedule_post in process p, up to the read of scheduled.json; the n-th
\* post has content n
SchedRead(p) ==
    /\ procs[p].at = "idle"
    /\ Len(log) < MaxPosts
    /\ \E pl \in PlatformLists, st \in RaceTimes :
          LET post == [content |-> Len(log) + 1, platforms |-> pl,
                       scheduled_time |-> st]
          IN  /\ procs' = [procs EXCEPT ![p] = [at |-> "sched",
                                                file |-> schedFile,
                                                post |-> <<post>>]]
              /\ log' = Append(log, [row |-> ToCsvRow(post), due |-> 0,
                                     written |-> FALSE, erased |-> FALSE])
    /\ UNCHANGED <<parsed, round, clock, ticks, usageVars, schedFile, pc, due_posts,
                   results, run>>

\* schedule_post in process p, the write: the list it read with the new
\* row appended
SchedWrite(p) ==
    /\ procs[p].at = "sched"
    /\ LET post == procs[p].post[1] IN
       /\ schedFile' = Enqueue(procs[p].file, post)
       /\ log' = [log EXCEPT ![post.content].written = TRUE]
    /\ procs' = [procs EXCEPT ![p] = [at |-> "idle", file |-> <<>>,
                                      post |-> <<>>]]
    /\ UNCHANGED <<parsed, round, clock, ticks, usageVars, pc, due_posts, results,
                   run>>

\* run_scheduled in process p, the read of a file it can read
RunRead(p) ==
    /\ procs[p].at = "idle"
    /\ Readable(schedFile)
    /\ procs' = [procs EXCEPT ![p] = [at |-> "run", file |-> schedFile,
                                      post |-> <<>>]]
    /\ UNCHANGED <<parsed, round, clock, ticks, usageVars, queueVars>>

\* run_scheduled in process p from now = datetime.utcnow() on: the
\* partition and the rewrite; the due posts are then dispatched
RunWrite(p) ==
    /\ procs[p].at = "run"
    /\ LET d == Drain(procs[p].file[1], clock) IN
       /\ schedFile' = <<d.written>>
       /\ log' = [i \in DOMAIN log |->
                     IF log[i].row \in Range(d.due)
                     THEN [log[i] EXCEPT !.due = @ + 1]
                     ELSE IF /\ log[i].row \in Range(LoadQueue(schedFile))
                             /\ log[i].row \notin Range(d.written)
                     THEN [log[i] EXCEPT !.erased = TRUE]
                     ELSE log[i]]
    /\ procs' = [procs EXCEPT ![p] = [at |-> "idle", file |-> <<>>,
                                      post |-> <<>>]]
    /\ UNCHANGED <<parsed, round, clock, ticks, usageVars, pc, due_posts, results,
                   run>>

QueueRaceNext ==
    \/ QTick
    \/ \E p \in Procs :
          \/ SchedRead(p)
          \/ SchedWrite(p)
          \/ RunRead(p)
          \/ RunWrite(p)

QueueRaceSpec == QueueRaceInit /\ [][QueueRaceNext]_vars

-----------------------------------------------------------------------------
(* Platform.from_string and Post.parse_platforms on the strings of the      *)
(* command line and of a CSV file                                           *)

\* the tokens tried: the keys of the mapping and some that are none
Words ==
    DOMAIN Mapping \cup
    {<<"f", "a", "c", "e", "b", "o", "o", "k">>, <<"t", "w">>,
     <<"a", " ", "l", "l">>, <<"x", "x">>, <<>>}

\* a token as written, all lower case, all upper case or capitalized
Cased(w, how) ==
    CASE how = "lower" -> w
      [] how = "upper" -> StrUpper(w)
      [] how = "title" ->
            [i \in 1..Len(w) |-> IF i = 1 THEN UpperChar(w[i]) ELSE w[i]]

\* the whitespace written before and after a token
Pads == {<<>>, <<" ">>, <<"\t", " ">>}

RawTokens ==
    {l \o Cased(w, how) \o r :
        l \in Pads, r \in Pads, w \in Words,
        how \in {"lower", "upper", "title"}}

\* the tokens of the lists tried, and the lists: up to MaxLen tokens joined
\* by commas
ListTokens ==
    {<<"x">>, <<" ", "L", "i">>, <<"*">>, <<"I", "G", " ">>,
     <<"f", "a", "c", "e", "b", "o", "o", "k">>, <<"T", "w">>, <<>>, <<" ">>}

RECURSIVE Join(_)
Join(ts) ==
    IF ts = <<>> THEN <<>>
    ELSE IF Len(ts) = 1 THEN ts[1]
    ELSE ts[1] \o <<",">> \o Join(Tail(ts))

RawLists == {Join(ts) : ts \in UNION {[1..n -> ListTokens] : n \in 0..MaxLen}}

\* Platform.from_string(value)
DoFromString ==
    /\ parsed.fn = "none"
    /\ \E value \in RawTokens :
          parsed' = [fn |-> "from_string", arg |-> value,
                     out |-> FromString(value)]
    /\ UNCHANGED <<round, procs, clock, ticks, usageVars, queueVars>>

\* Post.parse_platforms(value)
DoParsePlatforms ==
    /\ parsed.fn = "none"
    /\ \E value \in RawLists :
          parsed' = [fn |-> "parse_platforms", arg |-> value,
                     out |-> ParsePlatformsStr(value)]
    /\ UNCHANGED <<round, procs, clock, ticks, usageVars, queueVars>>

\* the caller has taken the outcome
ParseReturn ==
    /\ parsed.fn /= "none"
    /\ parsed' = NoParse
    /\ UNCHANGED <<round, procs, clock, ticks, usageVars, queueVars>>

ParseNext ==
    \/ DoFromString
    \/ DoParsePlatforms
    \/ ParseReturn

ParseSpec == Init /\ [][ParseNext]_vars

-----------------------------------------------------------------------------
(* Post.get_full_content on posts of a few characters *)

\* the contents tried (Post.content has at least one character), the
\* hashtag lists and the max_length arguments
Contents == UNION {[1..n -> {"a", " "}] : n \in 1..MaxChars}
HashtagLists == {<<>>, <<<<"t">>>>, <<<<"#", "t">>>>, <<<<"t">>, <<"u">>>>}
MaxLengths == {<<>>} \cup {<<n>> : n \in 0..(MaxChars + 1)}

\* post.get_full_content(max_length)
DoGetFullContent ==
    /\ parsed.fn = "none"
    /\ \E content \in Contents, hashtags \in HashtagLists,
          max_length \in MaxLengths :
          LET post == [content |-> content, hashtags |-> hashtags] IN
          parsed' = [fn |-> "get_full_content",
                     arg |-> [post |-> post, max_length |-> max_length],
                     out |-> GetFullContent(post, max_length)]
    /\ UNCHANGED <<round, procs, clock, ticks, usageVars, queueVars>>

ContentNext ==
    \/ DoGetFullContent
    \/ ParseReturn

ContentSpec == Init /\ [][ContentNext]_vars

-----------------------------------------------------------------------------
(* Post, Post.to_csv_row and Post.from_csv_row on the strings themselves    *)
(* (media_paths and alt_text, which take the same path as hashtags and      *)
(* link, are left out)                                                      *)

\* Platform.value as a str
PlatformValueStr(p) ==
    CASE p = "TWITTER" -> <<"t", "w", "i", "t", "t", "e", "r">>
      [] p = "LINKEDIN" -> <<"l", "i", "n", "k", "e", "d", "i", "n">>
      [] p = "INSTAGRAM" -> <<"i", "n", "s", "t", "a", "g", "r", "a", "m">>
      [] p = "ALL" -> <<"a", "l", "l">>

\* Post.validate_tags on a list: the tags that are not empty, each stripped
ValidateTags(v) ==
    LET kept == SelectSeq(v, LAMBDA t : t /= <<>>)
    IN  [i \in 1..Len(kept) |-> Strip(kept[i])]

\* Post(content=..., platforms=..., scheduled_time=..., hashtags=...,
\* link=...); link is <<>> for None and <<s>> for the str s
NewPost(content, platforms, scheduled_time, hashtags, link) ==
    [content |-> content, platforms |-> platforms,
     scheduled_time |-> scheduled_time, hashtags |-> ValidateTags(hashtags),
     link |-> link]

\* Post.to_csv_row
ToCsvRowStr(post) ==
    [content |-> post.content,
     platforms |-> Join([i \in 1..Len(post.platforms) |->
                            PlatformValueStr(post.platforms[i])]),
     scheduled_time |-> IsoFormat(post.scheduled_time),
     hashtags |-> Join(post.hashtags),
     link |-> IF post.link = <<>> THEN <<>> ELSE post.link[1]]

\* the list comprehension over row["hashtags"].split(",")
SplitTags(value) ==
    LET parts == Split(value)
        kept == SelectSeq(parts, LAMBDA h : Strip(h) /= <<>>)
    IN  [i \in 1..Len(kept) |-> Strip(kept[i])]

\* Post.from_csv_row
FromCsvRowStr(row) ==
    LET d == FromIsoFormat(row.scheduled_time)
    IN  NewPost(row.content,
                ParsePlatformsStr(row.platforms).returns,
                IF d.kind = "ValueError" THEN NoTime ELSE d,
                SplitTags(row.hashtags),
                IF row.link = <<>> THEN <<>> ELSE <<row.link>>)

\* the arguments Posts are constructed with
RawContents == {<<"a">>, <<" ", "a", "\n">>}
RawTimes == {NoTime, Naive(1), Aware(1)}
RawHashtags ==
    {<<>>, <<<<"t">>>>, <<<<"t">>, <<"#", "u">>>>, <<<<" ", "t", " ">>>>,
     <<<<"t", ",", "u">>>>, <<<<" ">>, <<"t">>>>, <<<<>>, <<"t">>>>}
RawLinks == {<<>>, <<<<>>>>, <<<<"l">>>>}

\* Post.from_csv_row(post.to_csv_row()) for a Post just constructed
DoRoundTrip ==
    /\ parsed.fn = "none"
    /\ \E content \in RawContents, platforms \in PostLists,
          scheduled_time \in RawTimes, hashtags \in RawHashtags,
          link \in RawLinks :
          LET post == NewPost(content, platforms, scheduled_time, hashtags,
                              link)
          IN  parsed' = [fn |-> "from_csv_row",
                         arg |-> [post |-> post, row |-> ToCsvRowStr(post)],
                         out |-> FromCsvRowStr(ToCsvRowStr(post))]
    /\ UNCHANGED <<round, procs, clock, ticks, usageVars, queueVars>>

RoundTripNext ==
    \/ DoRoundTrip
    \/ ParseReturn

RoundTripSpec == Init /\ [][RoundTripNext]_vars

-----------------------------------------------------------------------------
(* Properties of the UsageTracker, checked under Spec *)

\* C1: on a non-premium tracker posts_this_week never exceeds 5, whatever
\* counts record_post is called with.
C1_NeverExceedsLimit ==
    ~usage.is_premium => usage.posts_this_week <= 5

\* C6 as stated: when at least 7 days have elapsed since week_start (exactly
\* 7 days included), can_post on a non-premium tracker sets posts_this_week to
\* 0 and week_start to now and returns (true, 5).
C6_ResetAtSevenDays ==
    (ret.op = "can_post" /\ ~prev.is_premium
        /\ clock - prev.week_start >= 7 * 24 * 3600)
    => /\ usage.posts_this_week = 0
       /\ usage.week_start = clock
       /\ ret.allowed /\ ~ret.inf /\ ret.remaining = 5

\* C6 amended: when more than 7 days (strictly more than 7*24*3600 seconds)
\* have elapsed since week_start, can_post on a non-premium tracker sets
\* posts_this_week to 0 and week_start to now, whatever the count was, and
\* returns (true, 5).
C6_ResetAfterSevenDays ==
    (ret.op = "can_post" /\ ~prev.is_premium
        /\ clock - prev.week_start > 7 * 24 * 3600)
    => /\ usage.posts_this_week = 0
       /\ usage.week_start = clock
       /\ ret.allowed /\ ~ret.inf /\ ret.remaining = 5

\* a can_post that reset a used-up window
C6_Witness ==
    /\ ret.op = "can_post" /\ ~prev.is_premium
    /\ clock - prev.week_start > 7 * 24 * 3600
    /\ prev.posts_this_week >= 5
    /\ usage.posts_this_week = 0

\* C7: on a fresh non-premium tracker, within one window, after k successful
\* one-unit record_post calls can_post returns (k < 5, 5 - k); after the
\* fifth a further record_post returns false and leaves posts_this_week at 5.
C7_UnitPostsCountDown ==
    hist.pure =>
        /\ usage.posts_this_week = hist.ok
        /\ hist.ok <= 5
        /\ (ret.op = "can_post" =>
                /\ ~ret.inf
                /\ ret.allowed = (hist.ok < 5)
                /\ ret.remaining = 5 - hist.ok)
        /\ (ret.op = "record_post" /\ prev.posts_this_week = 5 =>
                ~ret.allowed /\ usage.posts_this_week = 5)

\* the sixth one-unit record_post, rejected
C7_Witness ==
    /\ hist.pure /\ hist.ok = 5
    /\ ret.op = "record_post" /\ ~ret.allowed
    /\ prev.posts_this_week = 5

\* C8: on a non-premium tracker can_post returns
\* remaining = max(0, 5 - posts_this_week), never negative, and
\* allowed = (remaining > 0), so a refusal is exactly (false, 0).
C8_RemainingClamped ==
    (ret.op = "can_post" /\ ~ret.inf) =>
        /\ ret.remaining = Max(0, 5 - usage.posts_this_week)
        /\ ret.remaining >= 0
        /\ ret.allowed = (ret.remaining > 0)
        /\ (~ret.allowed => ret.remaining = 0)

\* C9: record_post(count) on a non-premium tracker: when can_post does not
\* allow it, it returns false, leaves the record in memory as it was and does
\* not write usage.json; when allowed, it adds count to posts_this_week (of
\* the window can_post left), writes the record to usage.json, returns true.
C9_RecordPostRechecks ==
    (ret.op = "record_post" /\ ~prev.is_premium) =>
        LET newWeek == clock - prev.week_start > 7 * 24 * 3600
            base == IF newWeek THEN 0 ELSE prev.posts_this_week
        IN  IF base >= 5
            THEN ~ret.allowed /\ usage = prev /\ ~ret.saved
            ELSE /\ ret.allowed
                 /\ usage.posts_this_week = base + ret.count
                 /\ usage.week_start = (IF newWeek THEN clock
                                                   ELSE prev.week_start)
                 /\ ~usage.is_premium
                 /\ ret.saved /\ usageFile = <<JsonDump(usage)>>

\* a rejected record_post on a tracker with a usage.json
C9_Witness ==
    /\ ret.op = "record_post" /\ ~prev.is_premium
    /\ ~ret.allowed
    /\ usageFile /= <<>>

\* C10: after upgrade_to_premium, whatever the token and the count, every
\* later can_post returns (true, unbounded).
C10_PremiumUnlimited ==
    (hist.upgraded /\ ret.op = "can_post") => (ret.allowed /\ ret.inf)

\* can_post after an upgrade, the count above 5 and the window long over
C10_Witness ==
    /\ hist.upgraded /\ ret.op = "can_post"
    /\ usage.posts_this_week > 5
    /\ clock - usage.week_start > 7 * 24 * 3600

\* C11: on a premium tracker record_post(count) returns true for every
\* count, leaves posts_this_week, week_start and is_premium as they were and
\* does not write usage.json, which still holds the record as it was.
C11_PremiumRecordNoOp ==
    (ret.op = "record_post" /\ prev.is_premium) =>
        /\ ret.allowed
        /\ usage.posts_this_week = prev.posts_this_week
        /\ usage.week_start = prev.week_start
        /\ usage.is_premium
        /\ ~ret.saved
        /\ usageFile = <<[valid |-> TRUE,
                          posts_this_week |-> <<prev.posts_this_week>>,
                          week_start |-> <<prev.week_start>>,
                          is_premium |-> <<TRUE>>]>>

\* record_post(3) on a premium tracker whose count was already at the limit
C11_Witness ==
    /\ ret.op = "record_post" /\ prev.is_premium
    /\ ret.count = 3
    /\ prev.posts_this_week >= 5

\* C12: while premium, a record_post(count) that returns true increases
\* posts_this_week by count.
C12_PremiumStillCounted ==
    (ret.op = "record_post" /\ prev.is_premium /\ ret.allowed) =>
        usage.posts_this_week = prev.posts_this_week + ret.count

\* C13: every call that changes the record in memory (record_post,
\* upgrade_to_premium, the window reset inside can_post and get_usage_info)
\* leaves usage.json holding the new record.
C13_EveryChangeSaved ==
    (/\ ret.op \in {"can_post", "get_usage_info", "record_post",
                    "upgrade_to_premium"}
     /\ usage /= prev) =>
        usageFile = <<[valid |-> TRUE,
                       posts_this_week |-> <<usage.posts_this_week>>,
                       week_start |-> <<usage.week_start>>,
                       is_premium |-> <<usage.is_premium>>]>>

\* C27: while no more than 7 * 24 * 3600 seconds have passed since
\* week_start, can_post on a non-premium tracker leaves posts_this_week,
\* week_start and is_premium as they were (and writes nothing), and answers
\* from the count accumulated in the window.
C27_CanPostReadOnlyInWindow ==
    (/\ ret.op = "can_post"
     /\ ~prev.is_premium
     /\ clock - prev.week_start <= 7 * 24 * 3600) =>
        /\ usage = prev
        /\ ~ret.saved
        /\ ret.remaining = 5 - prev.posts_this_week

\* can_post exactly 7 days after week_start, with posts recorded
C27_Witness ==
    /\ ret.op = "can_post" /\ ~prev.is_premium
    /\ clock - prev.week_start = 7 * 24 * 3600
    /\ prev.posts_this_week > 0
    /\ usage.posts_this_week = prev.posts_this_week

-----------------------------------------------------------------------------
(* Properties of the schedule queue, checked under QueueSpec *)

\* the rows of scheduled.json
Queued == Range(LoadQueue(schedFile))

\* post i is neither in scheduled.json nor held by a run in progress
Gone(i) == log[i].row \notin Queued /\ log[i].row \notin Range(due_posts)

C3_RewrittenBeforeDispatch ==
    pc = "dispatch" =>
        /\ schedFile /= <<>>
        /\ \A i \in 1..Len(run.due) : run.due[i] \notin Queued

\* in the middle of a dispatch loop, with rows still queued
C3_Witness ==
    /\ pc = "dispatch"
    /\ results /= <<>>
    /\ due_posts /= <<>>
    /\ Queued /= {}

\* C4: no enqueued post is returned as due by more than one run, nor
\* dispatched more than once, also when runs fail or crash.
C4_NoDuplicateDispatch ==
    \A i \in DOMAIN log : log[i].due <= 1 /\ log[i].dispatched <= 1

\* a later run is dispatching after a run that lost post i, whose time has
\* come, and does not hold it
C4_Witness ==
    \E i \in DOMAIN log :
        /\ log[i].lost /\ log[i].due = 1
        /\ pc = "dispatch" /\ due_posts /= <<>>
        /\ log[i].row.scheduled_time.t <= run.now
        /\ log[i].row \notin Range(run.due)

\* C5 as stated (at-least-once), in the form a finite run refutes: a post
\* with a valid scheduled_time that is no longer queued and not held by a run
\* can no longer be delivered, so it has been handed to the Publisher.
C5_AtLeastOnce ==
    \A i \in DOMAIN log :
        (log[i].row.scheduled_time.kind \in {"iso", "iso_tz"} /\ Gone(i))
        => log[i].called

\* C5 amended (at-most-once): a run removes from the queue every row whose
\* time has come, and a post that has left the queue was passed to
\* SocialScheduler.post exactly once, or never when the run that removed it
\* failed or crashed before reaching it (the post is lost).
C5_AtMostOnce ==
    /\ pc = "dispatch" =>
           \A row \in Queued : ~(/\ row.scheduled_time.kind = "iso"
                                 /\ row.scheduled_time.t <= run.now)
    /\ \A i \in DOMAIN log :
           /\ log[i].dispatched <= 1
           /\ Gone(i) => \/ log[i].dispatched = 1 /\ ~log[i].lost
                         \/ log[i].dispatched = 0 /\ log[i].lost

\* a post whose time had come was lost by a crashed run and never dispatched
C5_Witness ==
    \E i \in DOMAIN log :
        /\ log[i].row.scheduled_time.kind = "iso"
        /\ log[i].lost /\ log[i].dispatched = 0
        /\ Gone(i) /\ pc = "idle"

\* C17: the due posts of one run are passed to post in the order they were
\* enqueued (the n-th enqueued post has content n), whatever their
\* scheduled times: what has been dispatched so far followed by what is
\* still to be dispatched is the due list, and the due list is in enqueue
\* order.
C17_DispatchInEnqueueOrder ==
    pc = "dispatch" =>
        /\ [k \in 1..Len(results) |-> results[k].post] \o due_posts = run.due
        /\ \A a, b \in DOMAIN run.due :
              a < b => run.due[a].content < run.due[b].content

\* two posts dispatched in one run, the first with the later scheduled time
C17_Witness ==
    /\ pc = "dispatch"
    /\ Len(results) = 2
    /\ results[1].post.scheduled_time.t > results[2].post.scheduled_time.t

\* C18: a run_scheduled that starts at the time of the run before it, with
\* no schedule_post in between, finds nothing due, dispatches nothing and
\* rewrites scheduled.json with what it read.
C18_DrainIdempotent ==
    (pc = "dispatch" /\ run.again) =>
        /\ run.due = <<>>
        /\ due_posts = <<>>
        /\ results = <<>>
        /\ schedFile = <<run.read>>

\* the run after the one that drained and dispatched the only, past-dated
\* post: the queue is empty
C18_Witness ==
    /\ pc = "dispatch" /\ run.again
    /\ Len(log) = 1 /\ log[1].dispatched = 1
    /\ schedFile = <<<<>>>>

\* C19: schedule_post leaves in scheduled.json the rows that were there, in
\* the same order, followed by the row of the new post.
C19_AppendsOneRecord ==
    [][Len(log') = Len(log) + 1 =>
          schedFile' = <<Append(IF schedFile = <<>> THEN <<>> ELSE schedFile[1],
                                log'[Len(log')].row)>>]_vars

\* the third post appended behind a row that an earlier run has kept
C19_Witness ==
    /\ Len(log) = 3
    /\ schedFile /= <<>>
    /\ Len(schedFile[1]) = 2
    /\ schedFile[1][1] = log[1].row
    /\ schedFile[1][2] = log[3].row
    /\ log[2].dispatched = 1

\* C34: every row that a run of run_scheduled took out of the queue as due
\* and has dispatched was handed to the Publisher for at least one of its
\* platforms (its result has an entry), whatever the weekly quota was when
\* its turn came.
C34_DueEntriesArePublished ==
    \A k \in DOMAIN results :
        /\ DOMAIN results[k].result /= {}
        /\ log[results[k].post.content].called

\* C37: when time goes on and run_scheduled is called again and again,
\* every post that schedule_post enqueued with a scheduled_time that
\* datetime.fromisoformat parses is eventually returned as due by a run:
\* again and again, all such posts enqueued so far have been returned as
\* due (a post that was returned as due stays so, and only MaxPosts posts
\* are enqueued).
C37_EventuallyDue ==
    []<>(\A i \in DOMAIN log :
            log[i].row.scheduled_time.kind \in {"iso", "iso_tz"}
            => log[i].due >= 1)

-----------------------------------------------------------------------------
(* Properties of the schedule queue over the edited file, checked under     *)
(* EditedQueueSpec                                                          *)

\* C16: a row whose scheduled_time is empty or is no date is never returned
\* as due, never passed to post and never leaves scheduled.json, and the
\* rows of scheduled.json keep their enqueue order.
C16_UnparsableStays ==
    /\ \A i \in DOMAIN log :
          log[i].row.scheduled_time.kind \in {"empty", "text"} =>
              /\ log[i].due = 0
              /\ log[i].dispatched = 0
              /\ ~log[i].lost
              /\ schedFile /= <<>>
              /\ \E k \in DOMAIN schedFile[1] : schedFile[1][k] = log[i].row
    /\ schedFile /= <<>> =>
          \A a, b \in DOMAIN schedFile[1] :
              a < b => schedFile[1][a].content < schedFile[1][b].content

\* the edited row and a row without time, still queued in that order after
\* a run has taken the due post that was enqueued between them
C16_Witness ==
    /\ Len(log) = 3
    /\ log[2].dispatched = 1
    /\ log[3].row.scheduled_time.kind = "empty"
    /\ schedFile = <<<<log[1].row, log[3].row>>>>

-----------------------------------------------------------------------------
(* Properties of the construction over an existing file, checked under      *)
(* LoadSpec, where usage.json stays as it was found                         *)

\* C14: get_usage_info on a tracker constructed over a usage.json that
\* stores posts_this_week reports the stored value, also when the file
\* stores no week_start (while the stored window, if any, is not over).
C14_ReportsStoredCount ==
    (/\ ret.op = "get_usage_info"
     /\ usageFile /= <<>>
     /\ usageFile[1].valid
     /\ usageFile[1].posts_this_week /= <<>>
     /\ \/ usageFile[1].week_start = <<>>
        \/ clock - usageFile[1].week_start[1] <= 7 * 24 * 3600) =>
        ret.info.posts_this_week = usageFile[1].posts_this_week[1]

-----------------------------------------------------------------------------
(* Properties of schedule_post's identifier, checked under IdSpec *)

\* C20: schedule_post gives the post an identifier different from that of
\* every post enqueued before, and returns that identifier.
C20_FreshIdReturned ==
    /\ \A i, j \in DOMAIN log : i /= j => log[i].id /= log[j].id
    /\ ret.op = "schedule_post" =>
          (ret.value.type = "str" /\ ret.value = log[Len(log)].id)

\* C20, amended: the identifier left in post.id is made from the clock
\* reading of the call, so two posts have the same identifier exactly when
\* they were enqueued at the same reading; schedule_post returns True, and
\* the row written to scheduled.json does not carry the identifier.
C20_IdFromClockReading ==
    /\ \A i, j \in DOMAIN log :
          (log[i].id = log[j].id) <=> (log[i].at = log[j].at)
    /\ ret.op = "schedule_post" =>
          /\ ret.value.type = "bool" /\ ret.value.bool
          /\ schedFile /= <<>>
          /\ \A k \in DOMAIN schedFile[1] :
                DOMAIN schedFile[1][k] =
                    {"content", "platforms", "scheduled_time"}

\* two posts enqueued at one clock reading and a third at a later one
C20_Witness ==
    /\ Len(log) = 3
    /\ log[1].at = log[2].at /\ log[1].id = log[2].id
    /\ log[3].at /= log[1].at /\ log[3].id /= log[1].id
    /\ ret.op = "schedule_post"

-----------------------------------------------------------------------------
(* Properties over a scheduled.json that is not JSON, checked under         *)
(* InvalidQueueSpec                                                         *)

-----------------------------------------------------------------------------
(* Properties of SocialScheduler.post, checked under PostSpec *)

\* C22: on a non-premium account with remaining quota r and an expanded
\* list longer than r, post goes through the first r platforms of the list
\* and no others; on a premium account it goes through the whole list.  The
\* Publisher is invoked for these platforms in list order, and when post
\* returns results holds entries for them alone.
C22_TruncatedToRemaining ==
    round.at \in {"loop", "raised", "returned"} =>
        LET expanded == IF \E k \in DOMAIN round.given : round.given[k] = "ALL"
                        THEN <<"TWITTER", "LINKEDIN", "INSTAGRAM">>
                        ELSE round.given
            r == round.c.remaining
        IN  /\ round.start.is_premium => round.platforms = expanded
            /\ ~round.start.is_premium =>
                  /\ r >= 1
                  /\ round.platforms =
                         IF Len(expanded) > r THEN SubSeq(expanded, 1, r)
                                              ELSE expanded
            /\ round.acc.called = SubSeq(round.platforms, 1, round.i - 1)
            /\ round.at = "returned" =>
                  /\ round.acc.called = round.platforms
                  /\ DOMAIN round.acc.results =
                         {round.platforms[k] : k \in DOMAIN round.platforms}

\* a returned round on three different platforms with two posts remaining
C22_Witness ==
    /\ round.at = "returned"
    /\ ~round.start.is_premium
    /\ round.given = <<"INSTAGRAM", "TWITTER", "LINKEDIN">>
    /\ round.c.remaining = 2
    /\ round.acc.called = <<"INSTAGRAM", "TWITTER">>

\* C23: in every round of post that went through its platforms, record_post
\* is called exactly once, with the number of platforms that succeeded.
C23_RecordedExactlyOnce ==
    round.at = "returned" =>
        /\ Len(round.recorded) = 1
        /\ round.recorded[1] =
               Cardinality({q \in DOMAIN round.acc.results :
                               round.acc.results[q]})

\* C23, amended: record_post is not called before the platform loop has
\* ended (the count in memory is the one can_post left); at the end it is
\* called once with the number of successful platforms when that number is
\* positive, and not at all when it is 0, when post is refused or when an
\* exception leaves post.
C23_RecordedAtEndIfAnySuccess ==
    /\ round.at \in {"loop", "raised", "refused"} =>
          /\ round.recorded = <<>>
          /\ usage.is_premium = round.start.is_premium
          /\ usage.posts_this_week =
                 IF usage.week_start = round.start.week_start
                 THEN round.start.posts_this_week ELSE 0
    /\ round.at = "returned" =>
          LET n == Cardinality({q \in DOMAIN round.acc.results :
                                   round.acc.results[q]})
          IN  round.recorded = IF n > 0 THEN <<n>> ELSE <<>>

\* a returned round of three attempts, two of them successful
C23_Witness ==
    /\ round.at = "returned"
    /\ Len(round.acc.called) = 3
    /\ round.recorded = <<2>>

\* C24: in a round of post on a non-premium account that returns, every
\* platform of the list is attempted whatever the outcomes before it, each
\* attempted platform has an entry in results, and posts_this_week grows by
\* the number of platforms whose entry is a success (counted from 0 when
\* the window was reset).
C24_FailuresDoNotStopTheRound ==
    (round.at = "returned" /\ ~round.start.is_premium) =>
        LET n == Cardinality({q \in DOMAIN round.acc.results :
                                 round.acc.results[q]})
            base == IF usage.week_start = round.start.week_start
                    THEN round.start.posts_this_week ELSE 0
        IN  /\ round.acc.called = round.platforms
            /\ DOMAIN round.acc.results =
                   {round.platforms[k] : k \in DOMAIN round.platforms}
            /\ usage.posts_this_week = base + n
            /\ ~usage.is_premium

\* a returned round whose first platform failed and whose two others
\* succeeded
C24_Witness ==
    /\ round.at = "returned" /\ ~round.start.is_premium
    /\ round.acc.called = <<"TWITTER", "LINKEDIN", "INSTAGRAM">>
    /\ ~round.acc.results["TWITTER"]
    /\ round.acc.results["LINKEDIN"] /\ round.acc.results["INSTAGRAM"]
    /\ usage.posts_this_week = round.start.posts_this_week + 2

\* C25: the Publisher is never invoked for ALL and results never has an
\* entry for ALL; a list that contains ALL is replaced by twitter, linkedin,
\* instagram (cut to the remaining quota) before the loop.
C25_AllIsExpanded ==
    round.at /= "none" =>
        /\ \A k \in DOMAIN round.acc.called : round.acc.called[k] /= "ALL"
        /\ "ALL" \notin DOMAIN round.acc.results
        /\ (round.c.allowed /\ \E k \in DOMAIN round.given :
                                   round.given[k] = "ALL") =>
              /\ round.platforms =
                     SubSeq(<<"TWITTER", "LINKEDIN", "INSTAGRAM">>, 1,
                            Len(round.platforms))
              /\ Len(round.platforms) =
                     IF round.start.is_premium \/ round.c.remaining >= 3
                     THEN 3 ELSE round.c.remaining

\* a returned round on the list linkedin, ALL
C25_Witness ==
    /\ round.at = "returned"
    /\ round.given = <<"LINKEDIN", "ALL">>
    /\ round.acc.called = <<"TWITTER", "LINKEDIN", "INSTAGRAM">>

\* C26: post on a non-premium account whose count has reached the limit in
\* the running window is refused: it returns the empty result, invokes the
\* Publisher for no platform, does not call record_post and leaves the
\* usage record as it was.
C26_RefusedWhenExhausted ==
    /\ (/\ round.at /= "none"
        /\ ~round.start.is_premium
        /\ round.start.posts_this_week >= 5
        /\ usage.week_start = round.start.week_start) =>
           round.at = "refused"
    /\ round.at = "refused" =>
          /\ ~round.c.allowed
          /\ round.platforms = <<>>
          /\ round.acc.called = <<>>
          /\ round.acc.results = <<>>
          /\ round.recorded = <<>>
          /\ usage = round.start

\* a refused post that names platforms, after earlier posts used the quota
C26_Witness ==
    /\ round.at = "refused"
    /\ round.given /= <<>>
    /\ usage.posts_this_week = 5
    /\ usageFile /= <<>>

\* C35: in a round of post that returns and whose list names a platform
\* more than once, every Publisher invocation has its own outcome in
\* results, and record_post is called with the number of invocations that
\* succeeded (not at all when none did).
C35_EveryInvocationCounted ==
    (/\ round.at = "returned"
     /\ \E j, k \in DOMAIN round.platforms :
            j /= k /\ round.platforms[j] = round.platforms[k]) =>
        LET succeeded == Cardinality({k \in DOMAIN round.outs : round.outs[k]})
        IN  /\ Cardinality(DOMAIN round.acc.results) = Len(round.acc.called)
            /\ round.recorded =
                   IF succeeded > 0 THEN <<succeeded>> ELSE <<>>

\* C33: through any rounds of post on a non-premium account, with any
\* lists, any outcomes and weeks passing, posts_this_week is never more than
\* 5, in memory and in usage.json, and the count a round passes to
\* record_post is never more than the remaining quota can_post returned to
\* that round.
C33_PostsKeepTheQuota ==
    /\ ~usage.is_premium => usage.posts_this_week <= FREE_TIER_LIMIT
    /\ \A i \in 1..Len(usageFile) :
          usageFile[i].is_premium = <<FALSE>> =>
              usageFile[i].posts_this_week[1] <= FREE_TIER_LIMIT
    /\ (round.at = "returned" /\ ~round.start.is_premium) =>
          \A i \in 1..Len(round.recorded) :
              round.recorded[i] <= round.c.remaining

\* a round that had its list cut and whose successes used up the quota
C33_Witness ==
    /\ round.at = "returned"
    /\ ~usage.is_premium
    /\ Len(round.platforms) < Len(round.given)
    /\ round.recorded = <<round.c.remaining>>
    /\ usage.posts_this_week = FREE_TIER_LIMIT

-----------------------------------------------------------------------------
(* Properties of two processes sharing usage.json, checked under            *)
(* UsageRaceSpec                                                            *)

\* C28: usage.json holds the record of the process that wrote it last, and
\* that record counts what this process loaded plus what it recorded
\* itself, whatever the other process has written since the load (last
\* writer wins).  The witness is the interleaving of the claim.
C28_LastWriterWins ==
    \A p \in Procs :
        /\ procs[p].usage.posts_this_week = procs[p].loaded + procs[p].own
        /\ procs[p].wrote =>
              usageFile = <<[valid |-> TRUE,
                             posts_this_week |->
                                 <<procs[p].loaded + procs[p].own>>,
                             week_start |-> <<procs[p].usage.week_start>>,
                             is_premium |-> <<FALSE>>]>>

\* both processes loaded the count 0, both record_post(3) calls returned
\* true, and usage.json counts 3: 6 were granted in the window
C28_Witness ==
    /\ \A p \in Procs : procs[p].loaded = 0 /\ procs[p].own = 3
    /\ usageFile /= <<>>
    /\ usageFile[1].posts_this_week = <<3>>

-----------------------------------------------------------------------------
(* Properties of two processes sharing scheduled.json, checked under        *)
(* QueueRaceSpec                                                            *)

\* C29: the rewrite of run_scheduled leaves in scheduled.json the rows that
\* are not due of the list the run read, not of the list that is in the
\* file when it writes; a row that a schedule_post of the other process
\* appended in between is gone.  The witness is the interleaving of the
\* claim.
C29_RewriteFromStaleRead ==
    [][\A p \in Procs :
          (procs[p].at = "run" /\ procs'[p].at = "idle") =>
              schedFile' =
                  <<SelectSeq(procs[p].file[1],
                              LAMBDA r : ~(/\ r.scheduled_time.kind = "iso"
                                           /\ r.scheduled_time.t <= clock))>>
      ]_vars

\* the second post, written by its schedule_post and not yet due, was taken
\* out of scheduled.json by a rewrite and never returned as due
C29_Witness ==
    /\ Len(log) = 2
    /\ log[2].written /\ log[2].erased /\ log[2].due = 0
    /\ log[2].row.scheduled_time.kind = "iso"
    /\ log[2].row.scheduled_time.t > clock
    /\ schedFile = <<<<>>>>
    /\ \A p \in Procs : procs[p].at = "idle"

\* C36: with one post scheduled and run_scheduled invoked in two processes,
\* the post is returned as due by at most one of the runs, however their
\* reads and rewrites of scheduled.json interleave.
C36_DueInOneRunOnly ==
    Len(log) = 1 => log[1].due <= 1

-----------------------------------------------------------------------------
(* Properties of platform parsing, checked under ParseSpec *)

\* the tokens that stand for a platform
Aliases(p) ==
    CASE p = "TWITTER" ->
            {<<"t", "w", "i", "t", "t", "e", "r">>, <<"x">>, <<"t">>}
      [] p = "LINKEDIN" ->
            {<<"l", "i", "n", "k", "e", "d", "i", "n">>, <<"l", "i">>}
      [] p = "INSTAGRAM" ->
            {<<"i", "n", "s", "t", "a", "g", "r", "a", "m">>, <<"i", "g">>,
             <<"i", "n", "s", "t", "a">>}
      [] p = "ALL" -> {<<"a", "l", "l">>, <<"*">>}

\* the same character up to its case
SameLetter(c, d) ==
    c = d \/ \E i \in 1..26 : {c, d} = {LowerCase[i], UpperCase[i]}

\* value is the word w in some case between whitespace
Names(value, w) ==
    \E i \in 1..(Len(value) + 1) :
        LET j == i + Len(w) - 1 IN
        /\ j <= Len(value)
        /\ \A k \in 1..Len(value) : (k < i \/ k > j) => value[k] \in Whitespace
        /\ \A k \in 1..Len(w) : SameLetter(value[i + k - 1], w[k])

\* the platforms value stands for
Known(value) == {p \in Platforms : \E w \in Aliases(p) : Names(value, w)}

\* C30: from_string returns TWITTER for twitter, x and t, LINKEDIN for
\* linkedin and li, INSTAGRAM for instagram, ig and insta, ALL for all and
\* *, in any case and between any whitespace, and raises a ValueError whose
\* message carries the argument for every other string.  parse_platforms
\* returns the platforms of the tokens of a comma-separated list in order
\* when all of them are known, and raises a ValueError whose message carries
\* an unknown token when there is one (parts of the list that are empty or
\* whitespace are no tokens).
C30_PlatformParsing ==
    /\ parsed.fn = "from_string" =>
          IF Known(parsed.arg) /= {}
          THEN \A p \in Known(parsed.arg) : parsed.out = Returns(p)
          ELSE parsed.out =
                   ValueError(<<"Unknown platform: ">> \o parsed.arg)
    /\ parsed.fn = "parse_platforms" =>
          LET tokens == SelectSeq(Split(parsed.arg),
                                  LAMBDA t : \E i \in 1..Len(t) :
                                                 t[i] \notin Whitespace)
              unknown == {i \in 1..Len(tokens) : Known(tokens[i]) = {}}
          IN  IF unknown = {}
              THEN /\ DOMAIN parsed.out = {"returns"}
                   /\ Len(parsed.out.returns) = Len(tokens)
                   /\ \A i \in 1..Len(tokens) :
                          parsed.out.returns[i] \in Known(tokens[i])
              ELSE \E i \in unknown :
                       parsed.out = ValueError(<<"Unknown platform: ">>
                                               \o Strip(tokens[i]))

\* parse_platforms(" Li,facebook") raised the ValueError for facebook
C30_Witness ==
    /\ parsed.fn = "parse_platforms"
    /\ parsed.arg = <<" ", "L", "i", ",",
                      "f", "a", "c", "e", "b", "o", "o", "k">>
    /\ parsed.out = ValueError(<<"Unknown platform: ",
                                 "f", "a", "c", "e", "b", "o", "o", "k">>)

-----------------------------------------------------------------------------
(* Properties of Post.get_full_content, checked under ContentSpec *)

\* C31: with a max_length of at least 1 given, the result of
\* get_full_content is never longer than max_length; it has exactly
\* max_length characters and ends with "..." when the content with its
\* hashtags is longer than max_length, and is that content unchanged
\* otherwise.
C31_TruncatedToMaxLength ==
    (/\ parsed.fn = "get_full_content"
     /\ parsed.arg.max_length /= <<>>
     /\ parsed.arg.max_length[1] >= 1) =>
        LET composed == Composed(parsed.arg.post)
            max_length == parsed.arg.max_length[1]
            n == Len(parsed.out)
        IN  /\ n <= max_length
            /\ IF Len(composed) > max_length
               THEN /\ n = max_length
                    /\ n >= 3
                    /\ SubSeq(parsed.out, n - 2, n) = <<".", ".", ".">>
               ELSE parsed.out = composed

-----------------------------------------------------------------------------
(* Properties of the CSV round trip, checked under RoundTripSpec *)

\* no hashtag of the post contains a comma
CommaFree(post) ==
    \A i \in 1..Len(post.hashtags) :
        \A k \in 1..Len(post.hashtags[i]) : post.hashtags[i][k] /= ","

\* C32: for a Post whose hashtags contain no comma,
\* from_csv_row(to_csv_row(p)) has the content, the set of platforms, the
\* hashtags, the link and the scheduled_time of p.
C32_RoundTrip ==
    (parsed.fn = "from_csv_row" /\ CommaFree(parsed.arg.post)) =>
        /\ parsed.out.content = parsed.arg.post.content
        /\ Range(parsed.out.platforms) = Range(parsed.arg.post.platforms)
        /\ parsed.out.hashtags = parsed.arg.post.hashtags
        /\ parsed.out.link = parsed.arg.post.link
        /\ parsed.out.scheduled_time = parsed.arg.post.scheduled_time

====
